---- MODULE Spec2Model ----
(***************************************************************************)
(* A model of the chunked geocoding pipeline of scripts/geocoder_chunked.py *)
(* (the resumable orchestrator process_file_chunked, process_chunk and the  *)
(* per-row lookup get_coordinates under one asyncio.Semaphore), of the      *)
(* recovery pass scripts/retry_timeout.py and of the fallback passes        *)
(* scripts/fix_notfound.py, fix_old_municipalities.py, fix_kyoto_special.py.*)
(*                                                                         *)
(* Strings of the source are kept as ASCII tags:                            *)
(*   "AddressEmpty"   = '住所が空です'                                      *)
(*   "NotFound"       = '住所が見つかりません'                              *)
(*   "Timeout"        = 'タイムアウト'                                      *)
(*   "TransportError" = '通信エラー: ...'                                   *)
(*   "ParseError"     = '解析エラー: ...'                                   *)
(*   "RetryLimit"     = 'リトライ上限'                                      *)
(* A text (an address) is a sequence of one-character strings.              *)
(***************************************************************************)
EXTENDS Integers, Sequences, FiniteSets, TLC

VARIABLES
    pc,           \* where process_file_chunked is: idle, loop, gather, save, saved, progress, or how the run ended: done, exit1, interrupted, sigint, killed, fault_progress, fault_lookup
    run,          \* number of runs of the program started so far
    progress,     \* the progress file result_<base>_progress.txt
    files,        \* the output files result_<base>_partNNN.csv, by part number
    start_part,   \* local of process_file_chunked
    part_num,     \* loop variable of process_file_chunked (0 before the first chunk)
    semaphore,    \* value of the asyncio.Semaphore of the run
    tasks,        \* the get_coordinates coroutines of the chunk in process_chunk, by row position
    doneOrder,    \* the row positions of the chunk in the order their coroutines finished
    df_result,    \* the frame process_chunk returned, while it is being saved
    cpAtStart,    \* history: the chunk number the progress file held when the run started (0: none)
    lookedUp,     \* history: the parts for whose rows this run issued a request
    wrote,        \* history: the parts whose output file this run opened for writing
    pending,      \* history: the part whose save the previous run stopped in (0: none)
    setup,        \* what the run finds at start: "ok", "no_encoding" (no candidate encoding reads the input file), "no_column" (address_column is not a column of the input)
    success_total, \* local of process_file_chunked
    error_total,  \* local of process_file_chunked
    replaced,     \* history: the chunk number the progress file held when it was last opened for writing (0: no file)
    lastDone,     \* history: the last chunk whose progress update this run finished (0: none)
    chunkStart,   \* history: the progress file and the output file of the chunk in process as they were when its lookups began
    stoppedAt,    \* history: where the run was when it was stopped or interrupted ("": it was not)
    rpc,          \* where retry_timeout.main is: idle, parts, done
    rpass,        \* how many times retry_timeout.py has been started on the output files
    part,         \* loop variable of retry_timeout.main
    svc,          \* the answer the service gives for each query while the recovery passes run ("unknown": not asked yet)
    after1,       \* history: the output files as the first recovery pass left them
    recRequested, \* history: the ids of the rows this recovery pass sent a request for
    resolved1,    \* history: the ids of the rows the first recovery pass got an answer for
    fpc,          \* where the main of a fallback script is with one part: idle, gather, done
    fbCands,      \* the candidate addresses try_address_variants goes through for the rows' address, in the order tried
    fb,           \* the try_address_variants coroutines of the part, by position in error_indices
    fbOut,        \* the three fallback columns of the selected rows
    payload,      \* the decoded JSON body of a successful response
    classified,   \* the results the lookups of the scripts build from payload, by script
    lk,           \* one get_coordinates call followed on its own: its script, query, position, attempt, the requests sent, the answers received and the result
    fbCols,       \* the three fallback columns of the output files, by part number: whether the file has them, and their cells by row
    ps,           \* the script that runs on the output files: where its main is (idle, parts, done, fault), which script, its loop variable part_num, and how many scripts were started
    atPass,       \* history: the output files and their fallback columns as they were when the script was started
    fbTried       \* history: the rows this script called try_address_variants for, each with whether a candidate was found

\* the variables of the pipeline run
\* the totals of the run, what it found at start and the history of its end
statVars == <<setup, success_total, error_total, replaced, lastDone, chunkStart, stoppedAt>>

runVars == <<pc, run, progress, start_part, part_num, tasks, doneOrder, df_result,
             cpAtStart, lookedUp, wrote, pending, statVars>>

\* the variables of the recovery pass
recVars == <<rpc, rpass, part, svc, after1, recRequested, resolved1>>

\* the variables of the fallback pass
fbVars == <<fpc, fbCands, fb, fbOut>>

\* the variables of the passes that run on the output files
\* the variables of the classification of one response
clVars == <<payload, classified>>

\* the variables of the lookup followed on its own and of the fallback passes
\* over the output files
psVars == <<fbCols, ps, atPass, fbTried>>

moreVars == <<lk, psVars>>

passVars == <<recVars, fbVars, clVars, moreVars>>

vars == <<runVars, files, semaphore, recVars, fbVars, clVars, moreVars>>

----------------------------------------------------------------------------
(* Bounds of the model *)

\* rows of the input file
NumRows == 5
\* split_size, the chunk size given on the command line
SplitSize == 2
\* max_concurrent, the semaphore's capacity given on the command line
MaxConcurrent == 1
\* how many times the program is started on the same input
MaxRuns == 2
\* how many times the recovery pass is run on the output files
MaxPasses == 2
\* rows of a part that a fallback pass selects
NumFbRows == 2
\* candidates the generators return for one address
MaxCandidates == 3
\* features in the JSON array of one response
MaxFeatures == 2

(* Program constants *)

\* retry_count of geocoder_chunked.get_coordinates
RetryCount == 3
\* retry_count of retry_timeout.get_coordinates
RecRetryCount == 5

----------------------------------------------------------------------------
(* Texts and cells *)

None == "None"

Str(s) == [isna |-> FALSE, text |-> s]

\* an empty CSV field read with dtype=str
NaN == [isna |-> TRUE, text |-> <<>>]

RECURSIVE LStrip(_)
LStrip(s) ==
    IF s # <<>> /\ Head(s) = " " THEN LStrip(Tail(s)) ELSE s

RECURSIVE RStrip(_)
RStrip(s) ==
    IF s # <<>> /\ s[Len(s)] = " " THEN RStrip(SubSeq(s, 1, Len(s) - 1)) ELSE s

\* str.strip()
Strip(s) == RStrip(LStrip(s))

\* the blank test without strip()
IsBlank_NoStrip(address) == address.isna \/ address.text = <<>>

\* pd.isna(address) or str(address).strip() == ""
IsBlank(address) == address.isna \/ Strip(address.text) = <<>>

----------------------------------------------------------------------------
(* The input file and its chunks *)

QueryKinds ==
    << Str(<<" ", "T">>), Str(<<"B">>), NaN, Str(<<"O", " ">>), Str(<<" ">>), Str(<<>>) >>

\* row r of the input: its id column and its address column
InputRow(r) == [id |-> r, address |-> QueryKinds[((r - 1) % Len(QueryKinds)) + 1]]

\* total_parts = (total_rows + split_size - 1) // split_size
total_parts == (NumRows + SplitSize - 1) \div SplitSize

Parts == 1..total_parts

\* the rows pd.read_csv(chunksize=split_size) yields as chunk number p
ChunkFirst(p) == (p - 1) * SplitSize + 1

ChunkLen(p) == IF p * SplitSize <= NumRows THEN SplitSize ELSE NumRows - (p - 1) * SplitSize

Chunk(p) == [i \in 1..ChunkLen(p) |-> InputRow(ChunkFirst(p) + i - 1)]

\* the queries the rows of the input lead to
Queries == {Strip(InputRow(r).address.text) : r \in 1..NumRows} \ {<<>>}

----------------------------------------------------------------------------
(* The lookup service *)

\* the JSON array the service answers for a query: the features found
ServiceData(q) ==
    CASE q = <<"T">> -> << [geometry |-> [coordinates |-> <<"139.7", "35.6">>],
                            properties |-> [title |-> "Tokyo"]] >>
      [] q = <<"O">> -> << [geometry |-> [coordinates |-> <<"135.5", "34.6">>],
                            properties |-> [title |-> "Osaka"]] >>
      [] OTHER -> << >>

\* what one session.get can end in and an except clause or a return handles:
\* a JSON body, a JSON body whose first element lacks the expected keys
\* (KeyError, IndexError), asyncio.TimeoutError, aiohttp.ClientError
\* (connection failure, raise_for_status, a body that is not JSON)
ResponseKinds == {"json", "malformed", "timeout", "clienterror"}

\* a failure returned without its status text
Failure_NoStatus(err) == [label |-> "", lat |-> None, lon |-> None, err |-> ""]

\* lines 32, 45, 59, 64, 66: a result without a match
Failure(err) == [label |-> "", lat |-> None, lon |-> None, err |-> err]

\* a result with the coordinate pair taken in the order of the service
ParseData_Untransposed(data) ==
    IF data = <<>>
    THEN Failure("NotFound")
    ELSE [label |-> data[1].properties.title,
          lat |-> data[1].geometry.coordinates[1],
          lon |-> data[1].geometry.coordinates[2],
          err |-> ""]

\* lines 44-53: the result built from a decoded JSON body
ParseData(data) ==
    IF data = <<>>
    THEN Failure("NotFound")
    ELSE [label |-> data[1].properties.title,
          lat |-> data[1].geometry.coordinates[2],
          lon |-> data[1].geometry.coordinates[1],
          err |-> ""]

----------------------------------------------------------------------------
(* Files *)

\* to_csv: None and NaN are written as the empty field
CsvCell(v) == IF v = None THEN "" ELSE v

\* to_csv(index=False) of one row of a frame
CsvRow(r) ==
    [id |-> r.id,
     address |-> IF r.address.isna THEN <<>> ELSE r.address.text,
     label |-> CsvCell(r.label), lat |-> CsvCell(r.lat),
     lon |-> CsvCell(r.lon), err |-> CsvCell(r.err)]

\* read_csv(dtype=str): the empty field is read as NaN
ReadCell(c) == IF c = "" THEN None ELSE c

\* read_csv(dtype=str) of one row of a file
ReadRow(row) ==
    [id |-> row.id,
     address |-> IF row.address = <<>> THEN NaN ELSE Str(row.address),
     label |-> ReadCell(row.label), lat |-> ReadCell(row.lat),
     lon |-> ReadCell(row.lon), err |-> ReadCell(row.err)]

\* Series.fillna('')
FillNa(v) == IF v = None THEN "" ELSE v

Absent == [exists |-> FALSE, rows |-> <<>>]

NoProgress == [st |-> "absent", n |-> 0]

\* the file right after open(progress_file, "w"), before the write is flushed
EmptyProgress == [st |-> "empty", n |-> 0]

ProgressOf(n) == [st |-> "value", n |-> n]

\* the progress value one chunk ahead of the chunk just saved
ProgressValue_Ahead == part_num + 1

\* the progress value one chunk behind the chunk just saved
ProgressValue_Behind == part_num - 1

\* the chunk number f.write(str(part_num)) stores
ProgressValue == part_num

\* a resume point that passes over the chunk after the recorded one
StartPartOf_SkipsOne(n) == n + 2

\* a run that starts at the first chunk whatever the progress file holds
StartPartOf_First(n) == 1

\* the resume point without the increment
StartPartOf_Same(n) == n

\* start_part = int(f.read().strip()) + 1
StartPartOf(n) == n + 1

NewTask == [pc |-> "new", attempt |-> 0, holds |-> FALSE, reqs |-> 0, result |-> Failure("")]

Rows == DOMAIN tasks

\* the address of the row at position i of the chunk being processed
AddressOf(i) == Chunk(part_num)[i].address

\* the number of requests in flight
InFlight == Cardinality({i \in Rows : tasks[i].pc = "request"})

Running == pc \in {"loop", "gather", "save", "saved", "progress"}

----------------------------------------------------------------------------
(* process_file_chunked *)

\* no chunk has been begun
NoChunk == [progress |-> NoProgress, file |-> Absent]

\* no run has counted, written the progress file or been stopped
StatIdle ==
    /\ setup = "ok"
    /\ success_total = 0
    /\ error_total = 0
    /\ replaced = 0
    /\ lastDone = 0
    /\ chunkStart = NoChunk
    /\ stoppedAt = ""

\* no recovery pass has been started
RecIdle ==
    /\ rpc = "idle"
    /\ rpass = 0
    /\ part = 0
    /\ svc = [q \in Queries |-> "unknown"]
    /\ after1 = <<>>
    /\ recRequested = {}
    /\ resolved1 = {}

\* no fallback pass has been started
FbIdle ==
    /\ fpc = "idle"
    /\ fbCands = <<>>
    /\ fb = <<>>
    /\ fbOut = <<>>

\* no lookup has a result
NotClassified == [script \in {} |-> <<>>]

\* no response is being classified
ClIdle ==
    /\ payload = <<>>
    /\ classified = NotClassified

\* no lookup is followed on its own
NoLookup ==
    [script |-> "", q |-> <<>>, pc |-> "idle", attempt |-> 0, reqs |-> 0,
     kinds |-> <<>>, status |-> ""]

\* the fallback columns of an output file: absent, or empty cells
NoCell == [query |-> "", lat |-> "", lon |-> ""]

NoCols(p) == [present |-> FALSE, cells |-> [i \in 1..ChunkLen(p) |-> NoCell]]

\* no script runs on the output files
NoPass == [pc |-> "idle", script |-> "", part |-> 0, n |-> 0]

PsIdle ==
    /\ fbCols = [p \in Parts |-> NoCols(p)]
    /\ ps = NoPass
    /\ atPass = <<>>
    /\ fbTried = {}

MoreIdle ==
    /\ lk = NoLookup
    /\ PsIdle

Init ==
    /\ pc = "idle"
    /\ run = 0
    /\ progress = NoProgress
    /\ files = [p \in Parts |-> Absent]
    /\ start_part = 1
    /\ part_num = 0
    /\ semaphore = MaxConcurrent
    /\ tasks = <<>>
    /\ doneOrder = <<>>
    /\ df_result = <<>>
    /\ cpAtStart = 0
    /\ lookedUp = {}
    /\ wrote = {}
    /\ pending = 0
    /\ StatIdle
    /\ RecIdle
    /\ FbIdle
    /\ ClIdle
    /\ MoreIdle

\* what a run can find at start
Setups == {"ok", "no_encoding", "no_column"}

\* the values of pc between two runs
Ended == {"idle", "done", "exit1", "interrupted", "sigint", "killed", "fault_progress", "fault_lookup"}

\* lines 108-145: a run starts, reads the progress file and detects the
\* encoding of the input
StartRun ==
    /\ pc \in Ended
    /\ run < MaxRuns
    /\ run' = run + 1
    /\ part_num' = 0
    /\ semaphore' = MaxConcurrent
    /\ tasks' = <<>>
    /\ doneOrder' = <<>>
    /\ df_result' = <<>>
    /\ lookedUp' = {}
    /\ wrote' = {}
    /\ cpAtStart' = IF progress.st = "value" THEN progress.n ELSE 0
    /\ \E s \in Setups :
          /\ setup' = s
          /\ CASE progress.st = "empty" ->
                    \* line 114: int("") raises ValueError
                    pc' = "fault_progress" /\ start_part' = 1
               [] progress.st # "empty" ->
                    /\ start_part' = IF progress.st = "value" THEN StartPartOf(progress.n) ELSE 1
                    \* lines 128-130: sys.exit(1) when no encoding was detected
                    /\ pc' = IF s = "no_encoding" THEN "exit1" ELSE "loop"
    /\ success_total' = 0
    /\ error_total' = 0
    /\ lastDone' = 0
    /\ chunkStart' = NoChunk
    /\ stoppedAt' = ""
    /\ UNCHANGED <<progress, files, pending, replaced>>

\* lines 157-161: a chunk before the resume point is read and skipped
SkipChunk ==
    /\ pc = "loop"
    /\ part_num < total_parts
    /\ part_num + 1 < start_part
    /\ part_num' = part_num + 1
    /\ UNCHANGED <<pc, run, progress, files, start_part, semaphore, tasks,
                   doneOrder, df_result, cpAtStart, lookedUp, wrote, pending>>
    /\ UNCHANGED statVars

\* lines 165-168: the first chunk that is not skipped lacks address_column,
\* sys.exit(1)
ColumnMissing ==
    /\ pc = "loop"
    /\ part_num < total_parts
    /\ ~(part_num + 1 < start_part)
    /\ setup = "no_column"
    /\ part_num' = part_num + 1
    /\ pc' = "exit1"
    /\ pending' = 0
    /\ UNCHANGED <<run, progress, files, start_part, semaphore, tasks, doneOrder,
                   df_result, cpAtStart, lookedUp, wrote, statVars>>

\* lines 163-173, 79-82: the next chunk is read and one coroutine per row is created
BeginChunk ==
    /\ pc = "loop"
    /\ part_num < total_parts
    /\ ~(part_num + 1 < start_part)
    /\ setup # "no_column"
    /\ part_num' = part_num + 1
    /\ tasks' = [i \in 1..ChunkLen(part_num + 1) |-> NewTask]
    /\ doneOrder' = <<>>
    /\ pc' = "gather"
    /\ chunkStart' = [progress |-> progress, file |-> files[part_num + 1]]
    /\ UNCHANGED <<run, progress, files, start_part, semaphore, df_result,
                   cpAtStart, lookedUp, wrote, pending,
                   setup, success_total, error_total, replaced, lastDone, stoppedAt>>

----------------------------------------------------------------------------
(* get_coordinates, one coroutine per row *)

Finish(i, result) ==
    /\ doneOrder' = Append(doneOrder, i)
    /\ UNCHANGED <<pc, run, progress, files, start_part, part_num, df_result,
                   cpAtStart, wrote, pending>>
    /\ UNCHANGED statVars

\* lines 31-32: a blank address returns at once
TaskBlank(i) ==
    /\ pc = "gather"
    /\ tasks[i].pc = "new"
    /\ IsBlank(AddressOf(i))
    /\ tasks' = [tasks EXCEPT ![i].pc = "done", ![i].result = Failure("AddressEmpty")]
    /\ Finish(i, tasks'[i].result)
    /\ UNCHANGED <<semaphore, lookedUp>>

\* lines 34-37: the coroutine reaches "async with semaphore"
TaskWait(i) ==
    /\ pc = "gather"
    /\ tasks[i].pc = "new"
    /\ ~IsBlank(AddressOf(i))
    /\ tasks' = [tasks EXCEPT ![i].pc = "wait"]
    /\ UNCHANGED <<pc, run, progress, files, start_part, part_num, semaphore,
                   doneOrder, df_result, cpAtStart, lookedUp, wrote, pending>>
    /\ UNCHANGED statVars

\* an acquire that never waits
CanAcquire_Always == TRUE

\* Semaphore.acquire returns when the value is positive
CanAcquire == semaphore > 0

\* lines 37-40: the semaphore is acquired and the first request is sent
TaskAcquire(i) ==
    /\ pc = "gather"
    /\ tasks[i].pc = "wait"
    /\ CanAcquire
    /\ semaphore' = semaphore - 1
    /\ tasks' = [tasks EXCEPT ![i].pc = "request", ![i].holds = TRUE,
                              ![i].attempt = 0, ![i].reqs = 1]
    /\ lookedUp' = lookedUp \cup {part_num}
    /\ UNCHANGED <<pc, run, progress, files, start_part, part_num,
                   doneOrder, df_result, cpAtStart, wrote, pending>>
    /\ UNCHANGED statVars

\* a return that leaves "async with" without the release
TaskReturn_KeepsPermit(i, result) ==
    /\ tasks' = [tasks EXCEPT ![i].pc = "done", ![i].holds = FALSE, ![i].result = result]
    /\ UNCHANGED semaphore
    /\ Finish(i, result)
    /\ UNCHANGED lookedUp

\* the coroutine returns result: "async with" releases the semaphore
TaskReturn(i, result) ==
    /\ tasks' = [tasks EXCEPT ![i].pc = "done", ![i].holds = FALSE, ![i].result = result]
    /\ semaphore' = semaphore + 1
    /\ Finish(i, result)
    /\ UNCHANGED lookedUp

\* lines 56-58, 61-63: attempts remain, the coroutine sleeps inside "async with"
TaskBackoff(i) ==
    /\ tasks' = [tasks EXCEPT ![i].pc = "sleep"]
    /\ UNCHANGED <<pc, run, progress, files, start_part, part_num, semaphore,
                   doneOrder, df_result, cpAtStart, lookedUp, wrote, pending>>
    /\ UNCHANGED statVars

\* lines 40-66: the request of the current attempt ends
TaskRespond(i, kind) ==
    /\ pc = "gather"
    /\ tasks[i].pc = "request"
    /\ CASE kind = "json" -> TaskReturn(i, ParseData(ServiceData(Strip(AddressOf(i).text))))
         [] kind = "malformed" -> TaskReturn(i, Failure("ParseError"))
         [] kind = "timeout" ->
                IF tasks[i].attempt < RetryCount - 1
                THEN TaskBackoff(i)
                ELSE TaskReturn(i, Failure("Timeout"))
         [] kind = "clienterror" ->
                IF tasks[i].attempt < RetryCount - 1
                THEN TaskBackoff(i)
                ELSE TaskReturn(i, Failure("TransportError"))

\* lines 38-40: asyncio.sleep(0.5) is over, the next attempt's request is sent
TaskRetry(i) ==
    /\ pc = "gather"
    /\ tasks[i].pc = "sleep"
    /\ tasks' = [tasks EXCEPT ![i].pc = "request", ![i].attempt = @ + 1, ![i].reqs = @ + 1]
    /\ UNCHANGED <<pc, run, progress, files, start_part, part_num, semaphore,
                   doneOrder, df_result, cpAtStart, lookedUp, wrote, pending>>
    /\ UNCHANGED statVars

\* lines 42, 47-48 and 82: an exception no except clause of get_coordinates
\* names (the ValueError of response.json() for a body that is not valid
\* JSON or cannot be decoded, the TypeError of data[0]["geometry"] for a
\* first element that is not an object) leaves the coroutine, gather
\* re-raises it and the run ends with a traceback
TaskRaise(i) ==
    /\ pc = "gather"
    /\ tasks[i].pc = "request"
    /\ pc' = "fault_lookup"
    /\ tasks' = <<>>
    /\ doneOrder' = <<>>
    /\ semaphore' = MaxConcurrent
    /\ pending' = 0
    /\ UNCHANGED <<run, progress, files, start_part, part_num, df_result,
                   cpAtStart, lookedUp, wrote>>
    /\ chunkStart' = NoChunk
    /\ UNCHANGED <<setup, success_total, error_total, replaced, lastDone, stoppedAt>>

----------------------------------------------------------------------------
(* process_chunk and the save of its result *)

\* the results in the order the coroutines finished
Gather_CompletionOrder == [i \in Rows |-> tasks[doneOrder[i]].result]

\* gather's return value: the coroutines' results in the order of the tasks list
Gather == [i \in Rows |-> tasks[i].result]

\* lines 84-90: the chunk with the four result columns
Augment(chunk, results) ==
    [i \in DOMAIN chunk |->
        [id |-> chunk[i].id, address |-> chunk[i].address,
         label |-> results[i].label, lat |-> results[i].lat,
         lon |-> results[i].lon, err |-> results[i].err]]

\* lines 82-90: every coroutine has finished, process_chunk returns
ChunkDone ==
    /\ pc = "gather"
    /\ \A i \in Rows : tasks[i].pc = "done"
    /\ df_result' = Augment(Chunk(part_num), Gather)
    /\ pc' = "save"
    /\ UNCHANGED <<run, progress, files, start_part, part_num, semaphore, tasks,
                   doneOrder, cpAtStart, lookedUp, wrote, pending>>
    /\ chunkStart' = NoChunk
    /\ UNCHANGED <<setup, success_total, error_total, replaced, lastDone, stoppedAt>>

\* line 177: to_csv opens the output file, which truncates it
OpenOutput ==
    /\ pc = "save"
    /\ part_num \notin wrote
    /\ files' = [files EXCEPT ![part_num] = [exists |-> TRUE, rows |-> <<>>]]
    /\ wrote' = wrote \cup {part_num}
    /\ UNCHANGED <<pc, run, progress, start_part, part_num, semaphore, tasks,
                   doneOrder, df_result, cpAtStart, lookedUp, pending>>
    /\ UNCHANGED statVars

\* line 177: to_csv writes the next row; after the last one the file is closed
WriteRow ==
    /\ pc = "save"
    /\ part_num \in wrote
    /\ LET n == Len(files[part_num].rows) + 1
       IN /\ n <= Len(df_result)
          /\ files' = [files EXCEPT ![part_num].rows = Append(@, CsvRow(df_result[n]))]
          /\ pc' = IF n = Len(df_result) THEN "saved" ELSE "save"
    /\ UNCHANGED <<run, progress, start_part, part_num, semaphore, tasks,
                   doneOrder, df_result, cpAtStart, lookedUp, wrote, pending>>
    /\ UNCHANGED statVars

\* line 181: df_result["緯度"].notna().sum()
Success(df) == Cardinality({i \in DOMAIN df : df[i].lat # None})

\* line 182: (df_result["エラー"].fillna("") != "").sum()
Error(df) == Cardinality({i \in DOMAIN df : FillNa(df[i].err) # ""})

\* lines 181-188: the chunk's counts are added to the totals, then
\* open(progress_file, "w") creates or truncates the progress file
OpenProgress ==
    /\ pc = "saved"
    /\ success_total' = success_total + Success(df_result)
    /\ error_total' = error_total + Error(df_result)
    /\ replaced' = IF progress.st = "value" THEN progress.n ELSE 0
    /\ progress' = EmptyProgress
    /\ pc' = "progress"
    /\ UNCHANGED <<run, files, start_part, part_num, semaphore, tasks,
                   doneOrder, df_result, cpAtStart, lookedUp, wrote, pending,
                   setup, lastDone, chunkStart, stoppedAt>>

\* line 189: the chunk number is written and the file closed; next iteration
WriteProgress ==
    /\ pc = "progress"
    /\ progress' = ProgressOf(ProgressValue)
    /\ pc' = "loop"
    /\ tasks' = <<>>
    /\ doneOrder' = <<>>
    /\ df_result' = <<>>
    /\ lastDone' = part_num
    /\ UNCHANGED <<run, files, start_part, part_num, semaphore,
                   cpAtStart, lookedUp, wrote, pending,
                   setup, success_total, error_total, replaced, chunkStart, stoppedAt>>

\* lines 195-203: the input is exhausted, the progress file is deleted
Complete ==
    /\ pc = "loop"
    /\ part_num = total_parts
    /\ progress' = NoProgress
    /\ pc' = "done"
    /\ pending' = 0
    /\ UNCHANGED <<run, files, start_part, part_num, semaphore, tasks,
                   doneOrder, df_result, cpAtStart, lookedUp, wrote>>
    /\ UNCHANGED statVars

\* whether the run is between the start of the save of the chunk and the
\* completed update of the progress file
InSaveWindow == (pc = "save" /\ part_num \in wrote) \/ pc \in {"saved", "progress"}

\* the run ends where it is: the files stay as they are
EndRun(how) ==
    /\ Running
    /\ pc' = how
    /\ stoppedAt' = pc
    /\ pending' = IF InSaveWindow THEN part_num ELSE 0
    /\ tasks' = <<>>
    /\ doneOrder' = <<>>
    /\ df_result' = <<>>
    /\ semaphore' = MaxConcurrent
    /\ UNCHANGED <<run, progress, files, start_part, part_num,
                   cpAtStart, lookedUp, wrote,
                   setup, success_total, error_total, replaced, lastDone, chunkStart>>

\* the process is stopped from outside at any point (kill, power loss)
Stop == EndRun("killed")

\* lines 147-193, 217: what Ctrl-C ends the run with. While the code of
\* process_file_chunked itself runs (reading a chunk, to_csv, the progress
\* write), KeyboardInterrupt is raised inside the try block and line 193
\* exits with status 0. While the coroutine is suspended in the await of
\* line 171, the interrupt is raised in the event loop (or, from Python
\* 3.11, asyncio.run cancels the main task): the coroutine sees
\* CancelledError, which "except KeyboardInterrupt" does not name, and
\* asyncio.run raises KeyboardInterrupt into main(), which has no handler
InterruptOutcome == IF pc = "gather" THEN "sigint" ELSE "interrupted"

\* an interrupt handler that saves the rows resolved so far of the chunk in
\* process before the run ends
Interrupt_FlushesChunk ==
    IF pc = "gather"
    THEN /\ pc' = InterruptOutcome
         /\ stoppedAt' = pc
         /\ files' = [files EXCEPT ![part_num] =
                         [exists |-> TRUE,
                          rows |-> [k \in 1..Len(doneOrder) |->
                                      CsvRow(Augment(Chunk(part_num), Gather)[doneOrder[k]])]]]
         /\ wrote' = wrote \cup {part_num}
         /\ pending' = 0
         /\ tasks' = <<>>
         /\ doneOrder' = <<>>
         /\ df_result' = <<>>
         /\ semaphore' = MaxConcurrent
         /\ UNCHANGED <<run, progress, start_part, part_num, cpAtStart, lookedUp,
                        setup, success_total, error_total, replaced, lastDone, chunkStart>>
    ELSE EndRun(InterruptOutcome)

\* the user presses Ctrl-C while the run processes chunks
Interrupt == EndRun(InterruptOutcome)

\* the exit status of the process
ExitStatus ==
    CASE pc \in {"done", "interrupted"} -> 0
      [] pc \in {"exit1", "fault_progress", "fault_lookup"} -> 1
      [] pc = "sigint" -> 130
      [] pc = "killed" -> 137
      [] OTHER -> -1

Next ==
    \/ StartRun /\ UNCHANGED passVars
    \/ SkipChunk /\ UNCHANGED passVars
    \/ ColumnMissing /\ UNCHANGED passVars
    \/ BeginChunk /\ UNCHANGED passVars
    \/ \E i \in Rows : TaskBlank(i) /\ UNCHANGED passVars
    \/ \E i \in Rows : TaskWait(i) /\ UNCHANGED passVars
    \/ \E i \in Rows : TaskAcquire(i) /\ UNCHANGED passVars
    \/ \E i \in Rows, kind \in ResponseKinds : TaskRespond(i, kind) /\ UNCHANGED passVars
    \/ \E i \in Rows : TaskRetry(i) /\ UNCHANGED passVars
    \/ \E i \in Rows : TaskRaise(i) /\ UNCHANGED passVars
    \/ ChunkDone /\ UNCHANGED passVars
    \/ OpenOutput /\ UNCHANGED passVars
    \/ WriteRow /\ UNCHANGED passVars
    \/ OpenProgress /\ UNCHANGED passVars
    \/ WriteProgress /\ UNCHANGED passVars
    \/ Complete /\ UNCHANGED passVars
    \/ Stop /\ UNCHANGED passVars
    \/ Interrupt /\ UNCHANGED passVars

Spec == Init /\ [][Next]_vars

\* a step of a run that is neither stopped nor interrupted
RunStep ==
    \/ SkipChunk /\ UNCHANGED passVars
    \/ ColumnMissing /\ UNCHANGED passVars
    \/ BeginChunk /\ UNCHANGED passVars
    \/ \E i \in Rows : TaskBlank(i) /\ UNCHANGED passVars
    \/ \E i \in Rows : TaskWait(i) /\ UNCHANGED passVars
    \/ \E i \in Rows : TaskAcquire(i) /\ UNCHANGED passVars
    \/ \E i \in Rows, kind \in ResponseKinds : TaskRespond(i, kind) /\ UNCHANGED passVars
    \/ \E i \in Rows : TaskRetry(i) /\ UNCHANGED passVars
    \/ \E i \in Rows : TaskRaise(i) /\ UNCHANGED passVars
    \/ ChunkDone /\ UNCHANGED passVars
    \/ OpenOutput /\ UNCHANGED passVars
    \/ WriteRow /\ UNCHANGED passVars
    \/ OpenProgress /\ UNCHANGED passVars
    \/ WriteProgress /\ UNCHANGED passVars
    \/ Complete /\ UNCHANGED passVars

LiveNext ==
    \/ StartRun /\ UNCHANGED passVars
    \/ RunStep

\* runs without a stop or an interrupt: the event loop runs every coroutine
\* that is ready, every request ends (with an answer or with the timeout of
\* 30 s), every sleep ends, and the code between two awaits runs on
SpecLive == Init /\ [][LiveNext]_vars /\ WF_vars(RunStep)

----------------------------------------------------------------------------
(* retry_timeout.py: the recovery pass over the output files *)

\* what the service answers a query of the recovery pass with: a JSON body,
\* a JSON body whose first element lacks the expected keys (or any other
\* exception), a timeout, a connection failure, a status other than 200, a
\* text/html body
RecKinds == {"json", "malformed", "timeout", "clienterror", "status", "html"}

RecFailure(error) == [success |-> FALSE, label |-> "", lat |-> "", lon |-> "", error |-> error]

\* lines 57-73: the result built from a decoded JSON body
RecParseData(data) ==
    IF data = <<>>
    THEN [success |-> TRUE, label |-> "", lat |-> "", lon |-> "", error |-> "NotFound"]
    ELSE [success |-> TRUE,
          label |-> data[1].properties.title,
          lat |-> data[1].geometry.coordinates[2],
          lon |-> data[1].geometry.coordinates[1],
          error |-> ""]

\* lines 36-91: the retry loop from attempt on, the service answering every
\* request for q with kind
RECURSIVE RecAttempt(_, _, _)
RecAttempt(q, kind, attempt) ==
    IF attempt >= RecRetryCount
    THEN RecFailure("RetryLimit")
    ELSE CASE kind = "json" -> RecParseData(ServiceData(q))
           [] kind = "status" ->
                IF attempt < RecRetryCount - 1 THEN RecAttempt(q, kind, attempt + 1)
                ELSE RecFailure("TransportError: HTTP")
           [] kind = "html" ->
                IF attempt < RecRetryCount - 1 THEN RecAttempt(q, kind, attempt + 1)
                ELSE RecFailure("TransportError: HTML")
           [] kind = "timeout" ->
                IF attempt < RecRetryCount - 1 THEN RecAttempt(q, kind, attempt + 1)
                ELSE RecFailure("Timeout")
           [] kind = "clienterror" ->
                IF attempt < RecRetryCount - 1 THEN RecAttempt(q, kind, attempt + 1)
                ELSE RecFailure("TransportError")
           [] kind = "malformed" ->
                IF attempt < RecRetryCount - 1 THEN RecAttempt(q, kind, attempt + 1)
                ELSE RecFailure("ParseError")

\* lines 25-91: retry_timeout.get_coordinates
RecGetCoordinates(address, answers) ==
    IF IsBlank(address)
    THEN RecFailure("AddressEmpty")
    ELSE RecAttempt(Strip(address.text), answers[Strip(address.text)], 0)

\* a selection that takes the rows without a match too
RetryMask_AlsoNotFound(err) ==
    err \in {"Timeout", "TransportError", "TransportError: HTTP", "TransportError: HTML",
             "NotFound"}

\* every selected row in every pass
RetryMask_AnyError(err) == err # ""

\* lines 112-115: the error text contains 'タイムアウト' or '通信エラー'
RetryMask(err) ==
    err \in {"Timeout", "TransportError", "TransportError: HTTP", "TransportError: HTML"}

\* the frame read from part p's output file
ReadFile(p) == [i \in 1..Len(files[p].rows) |-> ReadRow(files[p].rows[i])]

\* line 116: error_indices
ErrorIndices(df) == {i \in DOMAIN df : RetryMask(FillNa(df[i].err))}

\* an update that stores the status alone, whatever the result
RecUpdate_StatusOnly(row, res) == [row EXCEPT !.err = res.error]

\* lines 136-145: the row after its result was stored
RecUpdate(row, res) ==
    IF res.success
    THEN [row EXCEPT !.label = res.label, !.lat = res.lat, !.lon = res.lon, !.err = res.error]
    ELSE [row EXCEPT !.err = res.error]

\* the output files a completed run of the pipeline can leave behind
PipelineResults(address) ==
    IF IsBlank(address)
    THEN {Failure("AddressEmpty")}
    ELSE {ParseData(ServiceData(Strip(address.text))), Failure("Timeout"),
          Failure("TransportError"), Failure("ParseError")}

RecInit ==
    /\ pc = "done"
    /\ run = 1
    /\ progress = NoProgress
    /\ \E results \in [1..NumRows -> UNION {PipelineResults(InputRow(r).address) : r \in 1..NumRows}] :
          /\ \A r \in 1..NumRows : results[r] \in PipelineResults(InputRow(r).address)
          /\ files = [p \in Parts |->
                        [exists |-> TRUE,
                         rows |-> [i \in 1..ChunkLen(p) |->
                                     CsvRow(Augment(Chunk(p),
                                        [j \in 1..ChunkLen(p) |-> results[ChunkFirst(p) + j - 1]])[i])]]]
    /\ start_part = 1
    /\ part_num = total_parts
    /\ semaphore = MaxConcurrent
    /\ tasks = <<>>
    /\ doneOrder = <<>>
    /\ df_result = <<>>
    /\ cpAtStart = 0
    /\ lookedUp = {}
    /\ wrote = {}
    /\ pending = 0
    /\ StatIdle
    /\ RecIdle
    /\ FbIdle
    /\ ClIdle
    /\ MoreIdle

\* lines 94-103: retry_timeout.py is started
RecStart ==
    /\ rpc \in {"idle", "done"}
    /\ rpass < MaxPasses
    /\ rpass' = rpass + 1
    /\ rpc' = "parts"
    /\ part' = 0
    /\ recRequested' = {}
    /\ UNCHANGED <<runVars, files, semaphore, svc, after1, resolved1>>

\* lines 104-119: the next part has no file or no row to retry
RecSkipPart ==
    /\ rpc = "parts"
    /\ part < total_parts
    /\ \/ ~files[part + 1].exists
       \/ ErrorIndices(ReadFile(part + 1)) = {}
    /\ part' = part + 1
    /\ UNCHANGED <<runVars, files, semaphore, rpc, rpass, svc, after1, recRequested, resolved1>>

\* lines 104-151: the rows to retry of the next part are looked up, their
\* results stored and the file written again
RecRetryPart ==
    /\ rpc = "parts"
    /\ part < total_parts
    /\ files[part + 1].exists
    /\ LET df == ReadFile(part + 1)
           error_indices == ErrorIndices(df)
           asked == {Strip(df[i].address.text) : i \in {j \in error_indices : ~IsBlank(df[j].address)}}
       IN /\ error_indices # {}
          /\ \E answers \in [Queries -> RecKinds] :
                /\ \A q \in Queries : svc[q] # "unknown" => answers[q] = svc[q]
                /\ svc' = [q \in Queries |-> IF q \in asked THEN answers[q] ELSE svc[q]]
                /\ LET results == [i \in error_indices |-> RecGetCoordinates(df[i].address, answers)]
                       updated == [i \in DOMAIN df |->
                                     IF i \in error_indices THEN RecUpdate(df[i], results[i]) ELSE df[i]]
                   IN /\ files' = [files EXCEPT ![part + 1].rows =
                                      [i \in DOMAIN df |-> CsvRow(updated[i])]]
                      /\ resolved1' =
                            IF rpass = 1
                            THEN resolved1 \cup {df[i].id : i \in {j \in error_indices : results[j].success}}
                            ELSE resolved1
          /\ recRequested' = recRequested \cup
                {df[i].id : i \in {j \in error_indices : ~IsBlank(df[j].address)}}
    /\ part' = part + 1
    /\ UNCHANGED <<runVars, semaphore, rpc, rpass, after1>>

\* lines 153-158: every part was visited, the pass ends
RecEnd ==
    /\ rpc = "parts"
    /\ part = total_parts
    /\ rpc' = "done"
    /\ after1' = IF rpass = 1 THEN files ELSE after1
    /\ UNCHANGED <<runVars, files, semaphore, rpass, part, svc, recRequested, resolved1>>

RecNext ==
    \/ RecStart /\ UNCHANGED <<fbVars, clVars, moreVars>>
    \/ RecSkipPart /\ UNCHANGED <<fbVars, clVars, moreVars>>
    \/ RecRetryPart /\ UNCHANGED <<fbVars, clVars, moreVars>>
    \/ RecEnd /\ UNCHANGED <<fbVars, clVars, moreVars>>

SpecRecovery == RecInit /\ [][RecNext]_vars

----------------------------------------------------------------------------
(* fix_old_municipalities.py, fix_notfound.py, fix_kyoto_special.py: the   *)
(* fallback lookups of the rows of one part whose status is NotFound       *)

\* the candidate addresses the generators can return
CandNames == {"A", "B", "C"}

RECURSIVE SeqsUpTo(_, _)
SeqsUpTo(S, n) ==
    IF n = 0 THEN {<<>>}
    ELSE LET shorter == SeqsUpTo(S, n - 1)
         IN shorter \cup {Append(q, x) : q \in {r \in shorter : Len(r) = n - 1}, x \in S}

\* the candidate sequences: convert_address(address), or the variants of
\* fix_notfound and fix_kyoto_special in the order their loops try them
CandidateLists == SeqsUpTo(CandNames, MaxCandidates)

\* the coordinates (longitude, latitude) the service has for a candidate
FbCoordinates(c) ==
    CASE c = "A" -> <<"131.1", "31.1">>
      [] c = "B" -> <<"132.2", "32.2">>
      [] OTHER -> <<"133.3", "33.3">>

\* what one request of a fallback lookup can end in: a JSON array with a
\* feature, an empty JSON array, or anything the bare except swallows
FbKinds == {"found", "empty", "error"}

NotFoundResult == [found |-> FALSE, query_address |-> "", lat |-> "", lon |-> ""]

\* the JSON array the service answers for a candidate it has
FbServiceData(c) ==
    << [geometry |-> [coordinates |-> FbCoordinates(c)], properties |-> [title |-> c]] >>

\* fix_old_municipalities.py lines 154-165 (fix_notfound.py lines 123-134,
\* fix_kyoto_special.py lines 139-149): the result built from a decoded JSON
\* body
FbParseData(address, data) ==
    IF data = <<>>
    THEN NotFoundResult
    ELSE [found |-> TRUE, query_address |-> address,
          lat |-> data[1].geometry.coordinates[2],
          lon |-> data[1].geometry.coordinates[1]]

\* the result of a found candidate
FoundResult(c) == FbParseData(c, FbServiceData(c))

\* a loop that goes on after a candidate was found
StopsAt_Never(result) == FALSE

\* "if result['found']: return result"
StopsAt(result) == result.found

NewFb == [pc |-> "new", k |-> 0, calls |-> <<>>, result |-> NotFoundResult]

FbRows == DOMAIN fb

FbInit ==
    /\ pc = "done"
    /\ run = 1
    /\ progress = NoProgress
    /\ files = [p \in Parts |-> Absent]
    /\ start_part = 1
    /\ part_num = total_parts
    /\ semaphore = MaxConcurrent
    /\ tasks = <<>>
    /\ doneOrder = <<>>
    /\ df_result = <<>>
    /\ cpAtStart = 0
    /\ lookedUp = {}
    /\ wrote = {}
    /\ pending = 0
    /\ StatIdle
    /\ RecIdle
    /\ ClIdle
    /\ MoreIdle
    /\ fpc = "idle"
    /\ fbCands \in CandidateLists
    /\ fb = <<>>
    /\ fbOut = [i \in 1..NumFbRows |-> [query |-> "", lat |-> "", lon |-> ""]]

\* fix_old_municipalities.py lines 217-221: one coroutine per selected row
FbStart ==
    /\ fpc = "idle"
    /\ fb' = [i \in 1..NumFbRows |-> NewFb]
    /\ fpc' = "gather"
    /\ UNCHANGED <<runVars, files, semaphore, recVars, fbCands, fbOut>>

\* lines 171-173: the loop takes the next candidate, or ends without one
FbNextCandidate(i) ==
    IF fb[i].k < Len(fbCands)
    THEN [fb EXCEPT ![i].pc = "wait", ![i].k = @ + 1]
    ELSE [fb EXCEPT ![i].pc = "done", ![i].result = NotFoundResult]

\* lines 169-172: try_address_variants starts
FbBegin(i) ==
    /\ fpc = "gather"
    /\ fb[i].pc = "new"
    /\ fb' = FbNextCandidate(i)
    /\ UNCHANGED <<runVars, files, semaphore, recVars, fpc, fbCands, fbOut>>

\* lines 145-150: get_coordinates acquires the semaphore and sends the request
FbAcquire(i) ==
    /\ fpc = "gather"
    /\ fb[i].pc = "wait"
    /\ CanAcquire
    /\ semaphore' = semaphore - 1
    /\ fb' = [fb EXCEPT ![i].pc = "request",
                        ![i].calls = Append(@, [query |-> fbCands[fb[i].k], found |-> FALSE])]
    /\ UNCHANGED <<runVars, files, recVars, fpc, fbCands, fbOut>>

\* lines 150-176: the request ends, the semaphore is released, and the loop
\* returns the result or goes on
FbRespond(i, kind) ==
    /\ fpc = "gather"
    /\ fb[i].pc = "request"
    /\ semaphore' = semaphore + 1
    /\ LET result == IF kind = "found" THEN FoundResult(fbCands[fb[i].k]) ELSE NotFoundResult
           logged == [fb EXCEPT ![i].calls[Len(fb[i].calls)].found = result.found]
       IN fb' = IF StopsAt(result)
                THEN [logged EXCEPT ![i].pc = "done", ![i].result = result]
                ELSE IF fb[i].k < Len(fbCands)
                     THEN [logged EXCEPT ![i].pc = "wait", ![i].k = @ + 1]
                     ELSE [logged EXCEPT ![i].pc = "done", ![i].result = NotFoundResult]
    /\ UNCHANGED <<runVars, files, recVars, fpc, fbCands, fbOut>>

\* lines 223-229: the results are stored in the three fallback columns
FbApply ==
    /\ fpc = "gather"
    /\ \A i \in FbRows : fb[i].pc = "done"
    /\ fbOut' = [i \in DOMAIN fbOut |->
                    IF fb[i].result.found
                    THEN [query |-> fb[i].result.query_address,
                          lat |-> fb[i].result.lat, lon |-> fb[i].result.lon]
                    ELSE fbOut[i]]
    /\ fpc' = "done"
    /\ UNCHANGED <<runVars, files, semaphore, recVars, fbCands, fb>>

FbNext ==
    \/ FbStart /\ UNCHANGED <<clVars, moreVars>>
    \/ \E i \in FbRows : FbBegin(i) /\ UNCHANGED <<clVars, moreVars>>
    \/ \E i \in FbRows : FbAcquire(i) /\ UNCHANGED <<clVars, moreVars>>
    \/ \E i \in FbRows, kind \in FbKinds : FbRespond(i, kind) /\ UNCHANGED <<clVars, moreVars>>
    \/ FbApply /\ UNCHANGED <<clVars, moreVars>>

SpecFallback == FbInit /\ [][FbNext]_vars

----------------------------------------------------------------------------
(* The classification of one successful response by the lookup of each     *)
(* script                                                                  *)

Longitudes == {"135.5", "139.7"}

Latitudes == {"34.6", "35.6"}

Titles == {"Tokyo", "Osaka"}

\* the features of the service: a coordinate pair (longitude, latitude) and a title
Features ==
    {[geometry |-> [coordinates |-> <<lon, lat>>], properties |-> [title |-> t]] :
        lon \in Longitudes, lat \in Latitudes, t \in Titles}

\* the JSON arrays a successful response can hold
Payloads == SeqsUpTo(Features, MaxFeatures)

ClInit ==
    /\ pc = "idle"
    /\ run = 0
    /\ progress = NoProgress
    /\ files = [p \in Parts |-> Absent]
    /\ start_part = 1
    /\ part_num = 0
    /\ semaphore = MaxConcurrent
    /\ tasks = <<>>
    /\ doneOrder = <<>>
    /\ df_result = <<>>
    /\ cpAtStart = 0
    /\ lookedUp = {}
    /\ wrote = {}
    /\ pending = 0
    /\ StatIdle
    /\ RecIdle
    /\ FbIdle
    /\ payload \in Payloads
    /\ classified = NotClassified
    /\ MoreIdle

\* the lookup of script has classified the payload as result
Classify(script, result) ==
    /\ script \notin DOMAIN classified
    /\ classified' = classified @@ (script :> result)
    /\ UNCHANGED <<runVars, files, semaphore, recVars, fbVars, payload, moreVars>>

\* geocoder_chunked.py lines 42-53
ClassifyPrimary == Classify("primary", ParseData(payload))

\* retry_timeout.py lines 55-73
ClassifyRecovery == Classify("recovery", RecParseData(payload))

\* fix_old_municipalities.py lines 153-165, for the candidate "A"
ClassifyFallback == Classify("fallback", FbParseData("A", payload))

ClNext ==
    \/ ClassifyPrimary
    \/ ClassifyRecovery
    \/ ClassifyFallback

SpecClassify == ClInit /\ [][ClNext]_vars

----------------------------------------------------------------------------
(* One call of get_coordinates followed on its own, attempt by attempt, in *)
(* geocoder_chunked.py and in retry_timeout.py                             *)

\* the output files and the run as the pipeline leaves them untouched
RunIdle ==
    /\ pc = "idle"
    /\ run = 0
    /\ progress = NoProgress
    /\ files = [p \in Parts |-> Absent]
    /\ start_part = 1
    /\ part_num = 0
    /\ semaphore = MaxConcurrent
    /\ tasks = <<>>
    /\ doneOrder = <<>>
    /\ df_result = <<>>
    /\ cpAtStart = 0
    /\ lookedUp = {}
    /\ wrote = {}
    /\ pending = 0
    /\ StatIdle

\* what one request can end in: a JSON array of features ("json"); a
\* non-empty JSON array whose first element is an object without the
\* expected keys ("malformed": KeyError, IndexError); asyncio.TimeoutError;
\* a connection failure ("clienterror"); a status other than 2xx
\* ("status"); a body whose Content-Type is not JSON, such as an HTML error
\* page ("html"); a body sent as JSON that is not valid JSON or cannot be
\* decoded ("badjson": ValueError); a JSON body whose first element is not
\* an object ("wrongtype": TypeError)
LookupKinds ==
    {"json", "malformed", "timeout", "clienterror", "status", "html", "badjson", "wrongtype"}

LookupScripts == {"primary", "recovery"}

\* retry_count of the script's get_coordinates
RetryCountOf(script) == IF script = "primary" THEN RetryCount ELSE RecRetryCount

\* a retry test that always passes
AttemptsRemain_Always(attempt, retry_count) == TRUE

\* "if attempt < retry_count - 1"
AttemptsRemain(attempt, retry_count) == attempt < retry_count - 1

Return(status) == [act |-> "return", status |-> status]

Retry == [act |-> "retry", status |-> ""]

Raise == [act |-> "raise", status |-> ""]

RetryOr(attempt, retry_count, status) ==
    IF AttemptsRemain(attempt, retry_count) THEN Retry ELSE Return(status)

\* geocoder_chunked.py lines 39-66: what the body of the retry loop does
\* with the answer to the request of attempt
PrimaryStep(q, kind, attempt) ==
    CASE kind = "json" -> Return(ParseData(ServiceData(q)).err)
      [] kind = "malformed" -> Return("ParseError")
      [] kind = "timeout" -> RetryOr(attempt, RetryCount, "Timeout")
      \* raise_for_status and ContentTypeError are aiohttp.ClientError
      [] kind \in {"clienterror", "status", "html"} -> RetryOr(attempt, RetryCount, "TransportError")
      [] kind \in {"badjson", "wrongtype"} -> Raise

\* a recovery lookup that sends an HTML body to the JSON decoding
RecoveryStep_HtmlDecoded(q, kind, attempt) ==
    CASE kind = "json" -> Return(RecParseData(ServiceData(q)).error)
      [] kind = "status" -> RetryOr(attempt, RecRetryCount, "TransportError: HTTP")
      [] kind = "timeout" -> RetryOr(attempt, RecRetryCount, "Timeout")
      [] kind = "clienterror" -> RetryOr(attempt, RecRetryCount, "TransportError")
      [] kind \in {"html", "malformed", "badjson", "wrongtype"} ->
            RetryOr(attempt, RecRetryCount, "ParseError")

\* retry_timeout.py lines 37-89: what the body of the retry loop does with
\* the answer to the request of attempt
RecoveryStep(q, kind, attempt) ==
    CASE kind = "json" -> Return(RecParseData(ServiceData(q)).error)
      [] kind = "status" -> RetryOr(attempt, RecRetryCount, "TransportError: HTTP")
      [] kind = "html" -> RetryOr(attempt, RecRetryCount, "TransportError: HTML")
      [] kind = "timeout" -> RetryOr(attempt, RecRetryCount, "Timeout")
      [] kind = "clienterror" -> RetryOr(attempt, RecRetryCount, "TransportError")
      \* except (KeyError, IndexError, Exception)
      [] kind \in {"malformed", "badjson", "wrongtype"} ->
            RetryOr(attempt, RecRetryCount, "ParseError")

LookupStep(script, q, kind, attempt) ==
    IF script = "primary" THEN PrimaryStep(q, kind, attempt) ELSE RecoveryStep(q, kind, attempt)

\* get_coordinates is called for a query that is not blank and sends its
\* first request
LkInit ==
    /\ RunIdle
    /\ RecIdle
    /\ FbIdle
    /\ ClIdle
    /\ PsIdle
    /\ \E script \in LookupScripts, q \in Queries :
          lk = [script |-> script, q |-> q, pc |-> "request", attempt |-> 0, reqs |-> 1,
                kinds |-> <<>>, status |-> ""]

\* the request of the current attempt ends
LkRespond(kind) ==
    /\ lk.pc = "request"
    /\ LET step == LookupStep(lk.script, lk.q, kind, lk.attempt)
           logged == [lk EXCEPT !.kinds = Append(@, kind)]
       IN lk' = CASE step.act = "return" -> [logged EXCEPT !.pc = "done", !.status = step.status]
                  [] step.act = "retry" -> [logged EXCEPT !.pc = "sleep"]
                  [] step.act = "raise" -> [logged EXCEPT !.pc = "raised"]
    /\ UNCHANGED <<runVars, files, semaphore, recVars, fbVars, clVars, psVars>>

\* the sleep is over: the for loop takes the next attempt and sends its
\* request, or is exhausted and the function returns 'リトライ上限'
LkRetry ==
    /\ lk.pc = "sleep"
    /\ lk' = IF lk.attempt + 1 < RetryCountOf(lk.script)
             THEN [lk EXCEPT !.pc = "request", !.attempt = @ + 1, !.reqs = @ + 1]
             ELSE [lk EXCEPT !.pc = "done", !.status = "RetryLimit"]
    /\ UNCHANGED <<runVars, files, semaphore, recVars, fbVars, clVars, psVars>>

LkNext ==
    \/ \E kind \in LookupKinds : LkRespond(kind)
    \/ LkRetry

SpecLookup == LkInit /\ [][LkNext]_vars

----------------------------------------------------------------------------
(* The recovery script and the three fallback scripts run one after another *)
(* on the output files of a completed pipeline run, in any order. Each part  *)
(* is read, updated and written in one step.                                 *)

PassScripts == {"retry_timeout", "fix_notfound", "fix_old_municipalities", "fix_kyoto_special"}

FallbackScripts == {"fix_notfound", "fix_old_municipalities", "fix_kyoto_special"}

\* the fallback columns of part p in the frame, after the columns that are
\* absent were added empty
ColsOrEmpty(p) == IF fbCols[p].present THEN fbCols[p].cells ELSE NoCols(p).cells

\* a selection that ignores the fallback query a row already has
FbMask_AnyNotFound(err, query) == err = "NotFound"

\* a selection that ignores the status of the row
FbMask_AnyStatus(err, query) == query = ""

\* the rows a fallback script selects: the status is NotFound and the
\* fallback query is empty
FbMask(err, query) == err = "NotFound" /\ query = ""

\* error_indices of a fallback script for part p
FbIndices(p) ==
    {i \in 1..Len(files[p].rows) :
        FbMask(FillNa(ReadFile(p)[i].err), ColsOrEmpty(p)[i].query)}

\* the fallback cells of a row after its result was stored
FbUpdate(cell, res) ==
    IF res.found
    THEN [query |-> res.query_address, lat |-> res.lat, lon |-> res.lon]
    ELSE cell

\* what try_address_variants can return for a row
FbOutcomes == {NotFoundResult} \cup {FoundResult(c) : c \in CandNames}

\* the six pipeline columns of part p as to_csv writes them back
Rewritten(p) == [i \in 1..Len(files[p].rows) |-> CsvRow(ReadFile(p)[i])]

\* a script is started on the output files
PsStart(script) ==
    /\ ps.pc \in {"idle", "done", "fault"}
    /\ ps.n < MaxPasses
    /\ ps' = [pc |-> "parts", script |-> script, part |-> 0, n |-> ps.n + 1]
    /\ atPass' = [files |-> files, cols |-> fbCols]
    /\ fbTried' = {}
    /\ UNCHANGED <<files, fbCols, svc>>

\* retry_timeout.py lines 104-151 on the next part
PsRecoveryPart ==
    /\ ps.pc = "parts"
    /\ ps.script = "retry_timeout"
    /\ ps.part < total_parts
    /\ LET p == ps.part + 1
       IN IF ~files[p].exists \/ ErrorIndices(ReadFile(p)) = {}
          THEN UNCHANGED <<files, svc>>
          ELSE LET df == ReadFile(p)
                   error_indices == ErrorIndices(df)
                   asked == {Strip(df[i].address.text) :
                               i \in {j \in error_indices : ~IsBlank(df[j].address)}}
               IN \E answers \in [Queries -> RecKinds] :
                     /\ \A q \in Queries : svc[q] # "unknown" => answers[q] = svc[q]
                     /\ svc' = [q \in Queries |-> IF q \in asked THEN answers[q] ELSE svc[q]]
                     /\ files' = [files EXCEPT ![p].rows =
                                    [i \in DOMAIN df |->
                                       CsvRow(IF i \in error_indices
                                              THEN RecUpdate(df[i], RecGetCoordinates(df[i].address, answers))
                                              ELSE df[i])]]
    /\ ps' = [ps EXCEPT !.part = @ + 1]
    /\ UNCHANGED <<fbCols, atPass, fbTried>>

\* fix_kyoto_special.py line 194: the frame has no fallback columns and the
\* selection raises KeyError
PsColumnsMissing ==
    /\ ps.pc = "parts"
    /\ ps.script = "fix_kyoto_special"
    /\ ps.part < total_parts
    /\ files[ps.part + 1].exists
    /\ ~fbCols[ps.part + 1].present
    /\ ps' = [ps EXCEPT !.pc = "fault"]
    /\ UNCHANGED <<files, fbCols, atPass, fbTried, svc>>

\* the main loop of a fallback script on the next part: the columns are
\* added (fix_notfound.py, fix_old_municipalities.py), the rows selected,
\* their candidates tried, the results stored and the file written
PsFallbackPart ==
    /\ ps.pc = "parts"
    /\ ps.script \in FallbackScripts
    /\ ps.part < total_parts
    /\ LET p == ps.part + 1
       IN IF ~files[p].exists
          THEN UNCHANGED <<files, fbCols, fbTried>>
          ELSE /\ ps.script = "fix_kyoto_special" => fbCols[p].present
               /\ LET df == ReadFile(p)
                      error_indices == FbIndices(p)
                  IN IF error_indices = {}
                     THEN /\ IF ps.script = "fix_notfound"
                             THEN /\ fbCols' = [fbCols EXCEPT ![p] =
                                                  [present |-> TRUE, cells |-> ColsOrEmpty(p)]]
                                  /\ files' = [files EXCEPT ![p].rows = Rewritten(p)]
                             ELSE UNCHANGED <<files, fbCols>>
                          /\ UNCHANGED fbTried
                     ELSE \E results \in [error_indices -> FbOutcomes] :
                             /\ fbCols' = [fbCols EXCEPT ![p] =
                                             [present |-> TRUE,
                                              cells |-> [i \in DOMAIN df |->
                                                           IF i \in error_indices
                                                           THEN FbUpdate(ColsOrEmpty(p)[i], results[i])
                                                           ELSE ColsOrEmpty(p)[i]]]]
                             /\ files' = [files EXCEPT ![p].rows = Rewritten(p)]
                             /\ fbTried' = fbTried \cup
                                   {[id |-> df[i].id, found |-> results[i].found] : i \in error_indices}
    /\ ps' = [ps EXCEPT !.part = @ + 1]
    /\ UNCHANGED <<atPass, svc>>

\* every part was visited, the script ends
PsEnd ==
    /\ ps.pc = "parts"
    /\ ps.part = total_parts
    /\ ps' = [ps EXCEPT !.pc = "done"]
    /\ UNCHANGED <<files, fbCols, atPass, fbTried, svc>>

\* what no script on the output files changes
psFrame == <<runVars, semaphore, rpc, rpass, part, after1, recRequested, resolved1, fbVars, clVars, lk>>

PsNext ==
    \/ \E script \in PassScripts : PsStart(script) /\ UNCHANGED psFrame
    \/ PsRecoveryPart /\ UNCHANGED psFrame
    \/ PsColumnsMissing /\ UNCHANGED psFrame
    \/ PsFallbackPart /\ UNCHANGED psFrame
    \/ PsEnd /\ UNCHANGED psFrame

SpecPasses == RecInit /\ [][PsNext]_vars

----------------------------------------------------------------------------
(* fix_notfound.py: the candidates try_address_variants goes through for   *)
(* an address. A character of an address is written by an ASCII name:      *)
(*   kyo 京  to 都  fu 府  shi 市  ku 区  cho 町  ban 番  chi 地  no の     *)
(*   tei 丁  me 目  dori 通  iru 入  ue 上  shita 下  higashi 東  nishi 西  *)
(*   hama 浜  matsu 松  naka 中  o 央  minami 南  kita 北  na 名  ken 県    *)
(*   "-" is the hyphen, "0".."9" are the digits, any other name is a       *)
(*   character no pattern of the script names.                             *)

Digits == {"0", "1", "2", "3", "4", "5", "6", "7", "8", "9"}

\* w is in s at position i
IsAt(s, i, w) == i >= 1 /\ i + Len(w) - 1 <= Len(s) /\ SubSeq(s, i, i + Len(w) - 1) = w

\* "w in s"
Contains(s, w) == \E i \in 1..Len(s) : IsAt(s, i, w)

\* s.replace(old, new) and re.sub of a literal, from position i on
RECURSIVE ReplaceFrom(_, _, _, _)
ReplaceFrom(s, i, old, new) ==
    IF i > Len(s) THEN <<>>
    ELSE IF IsAt(s, i, old) THEN new \o ReplaceFrom(s, i + Len(old), old, new)
    ELSE <<s[i]>> \o ReplaceFrom(s, i + 1, old, new)

Replace(s, old, new) == ReplaceFrom(s, 1, old, new)

\* \d+ at position i: the last position of the longest run of digits that
\* starts at i (i - 1 when s[i] is no digit)
RECURSIVE DigitsEnd(_, _)
DigitsEnd(s, i) ==
    IF i <= Len(s) /\ s[i] \in Digits THEN DigitsEnd(s, i + 1) ELSE i - 1

\* re.sub(r'\d+W.*$', '', s) for a literal W: s up to the leftmost place
\* where digits followed by W begin
CutAtDigits(s, w) ==
    LET starts == {i \in 1..Len(s) : DigitsEnd(s, i) >= i /\ IsAt(s, DigitsEnd(s, i) + 1, w)}
    IN IF starts = {} THEN s
       ELSE SubSeq(s, 1, (CHOOSE i \in starts : \A j \in starts : i <= j) - 1)

Banchi == <<"ban", "chi">>

BanchiNo == <<"ban", "chi", "no">>

Chome == <<"tei", "me">>

\* re.sub(r'(\d+)番地の(\d+)', r'\1-\2', s), from position i on
RECURSIVE SubBanchiNoFrom(_, _)
SubBanchiNoFrom(s, i) ==
    IF i > Len(s) THEN <<>>
    ELSE LET j == DigitsEnd(s, i)
             k == j + 1 + Len(BanchiNo)
             l == DigitsEnd(s, k)
         IN IF j >= i /\ IsAt(s, j + 1, BanchiNo) /\ l >= k
            THEN SubSeq(s, i, j) \o <<"-">> \o SubSeq(s, k, l) \o SubBanchiNoFrom(s, l + 1)
            ELSE <<s[i]>> \o SubBanchiNoFrom(s, i + 1)

HamamatsuShi == <<"hama", "matsu", "shi">>

\* MIKATAHARA_TOWNS
MIKATAHARA_TOWNS ==
    << <<"hatsu", "oi", "cho">>, <<"mi", "kata", "hara", "cho">>,
       <<"higashi", "mi", "kata", "cho">>, <<"toyo", "oka", "cho">>,
       <<"mi", "sachi", "cho">>, <<"dai", "hara", "cho">>, <<"ne", "arai", "cho">> >>

\* convert_hamamatsu_address: the converted address, or none (<<>>)
convert_hamamatsu_address(address) ==
    LET chuo == HamamatsuShi \o <<"naka", "o", "ku">>
        hamana == HamamatsuShi \o <<"hama", "na", "ku">>
        naka == HamamatsuShi \o <<"naka", "ku">>
        higashi == HamamatsuShi \o <<"higashi", "ku">>
        nishi == HamamatsuShi \o <<"nishi", "ku">>
        minami == HamamatsuShi \o <<"minami", "ku">>
        kita == HamamatsuShi \o <<"kita", "ku">>
        hamakita == HamamatsuShi \o <<"hama", "kita", "ku">>
    IN IF address = <<>> \/ ~Contains(address, HamamatsuShi) THEN <<>>
       ELSE IF Contains(address, naka) THEN <<Replace(address, naka, chuo)>>
       ELSE IF Contains(address, higashi) THEN <<Replace(address, higashi, chuo)>>
       ELSE IF Contains(address, nishi) THEN <<Replace(address, nishi, chuo)>>
       ELSE IF Contains(address, minami) THEN <<Replace(address, minami, chuo)>>
       ELSE IF Contains(address, kita)
            THEN IF \E t \in DOMAIN MIKATAHARA_TOWNS : Contains(address, MIKATAHARA_TOWNS[t])
                 THEN <<Replace(address, kita, chuo)>>
                 ELSE <<Replace(address, kita, hamana)>>
       ELSE IF Contains(address, hamakita) THEN <<Replace(address, hamakita, hamana)>>
       ELSE <<>>

Kyoto == <<"kyo", "to">>

KyotoFuKyotoShi == <<"kyo", "to", "fu", "kyo", "to", "shi">>

\* the characters [^\d通入上下東西] excludes
StreetChars == Digits \cup {"dori", "iru", "ue", "shita", "higashi", "nishi"}

\* [^\d通入上下東西]+ at position j: the last position of the longest run
RECURSIVE TownRunEnd(_, _)
TownRunEnd(s, j) ==
    IF j <= Len(s) /\ s[j] \notin StreetChars THEN TownRunEnd(s, j + 1) ELSE j - 1

\* re.search(r'(京都府京都市[^区]+区).*?([^\d通入上下東西]+町)\d*', s): the
\* matches as <<start, end of group 1, start of group 2, end of group 2>>,
\* for every start and every start of group 2
KyotoTownMatches(s) ==
    {m \in (1..Len(s)) \X (1..Len(s)) \X (1..Len(s)) \X (1..Len(s)) :
        /\ IsAt(s, m[1], KyotoFuKyotoShi)
        /\ m[2] > m[1] + Len(KyotoFuKyotoShi)
        /\ s[m[2]] = "ku"
        /\ \A e \in (m[1] + Len(KyotoFuKyotoShi))..(m[2] - 1) : s[e] # "ku"
        /\ m[3] > m[2]
        /\ m[4] > m[3]
        /\ m[4] <= TownRunEnd(s, m[3])
        /\ s[m[4]] = "cho"
        /\ \A t \in (m[4] + 1)..TownRunEnd(s, m[3]) : s[t] # "cho"}

\* the match re.search returns: the leftmost start, and for the lazy .*? the
\* leftmost start of group 2
KyotoTownMatch(s) ==
    CHOOSE m \in KyotoTownMatches(s) :
        \A n \in KyotoTownMatches(s) : m[1] < n[1] \/ (m[1] = n[1] /\ m[3] <= n[3])

\* line 78: the shortest length kept is above this
KyotoMinLen == 15

\* normalize_kyoto_address
normalize_kyoto_address(address) ==
    IF address = <<>> \/ ~Contains(address, Kyoto) THEN <<>>
    ELSE LET m == KyotoTownMatch(address)
             simplified == SubSeq(address, m[1], m[2]) \o SubSeq(address, m[3], m[4])
             variants1 == IF KyotoTownMatches(address) # {} THEN <<simplified>> ELSE <<>>
             v2 == CutAtDigits(address, Banchi)
         IN IF v2 # address /\ Len(v2) > KyotoMinLen
            THEN Append(variants1, v2)
            ELSE variants1

\* lines 104, 109
GeneralMinLen == 10

\* "x in variants"
InList(x, variants) == \E k \in DOMAIN variants : variants[k] = x

\* normalize_general_address
normalize_general_address(address) ==
    IF address = <<>> THEN <<>>
    ELSE LET v1 == SubBanchiNoFrom(address, 1)
             variants1 == IF v1 # address THEN <<v1>> ELSE <<>>
             v2 == Replace(address, Banchi, <<>>)
             variants2 == IF v2 # address /\ ~InList(v2, variants1)
                          THEN Append(variants1, v2) ELSE variants1
             v3 == CutAtDigits(address, Banchi)
             variants3 == IF v3 # address /\ Len(v3) > GeneralMinLen /\ ~InList(v3, variants2)
                          THEN Append(variants2, v3) ELSE variants2
             v4 == CutAtDigits(address, Chome)
         IN IF v4 # address /\ Len(v4) > GeneralMinLen /\ ~InList(v4, variants3)
            THEN Append(variants3, v4) ELSE variants3

\* try_address_variants lines 141-160: the candidates in the order the three
\* loops send them to get_coordinates
VariantsOf(original_address) ==
    (IF Contains(original_address, HamamatsuShi)
     THEN convert_hamamatsu_address(original_address) ELSE <<>>)
    \o (IF Contains(original_address, Kyoto)
        THEN normalize_kyoto_address(original_address) ELSE <<>>)
    \o normalize_general_address(original_address)

\* the addresses of the rows: 京都府京都市右京区嵯峨天龍寺芒ノ馬場町68番地,
\* 京都府京都市中京区大黒町12番地, 静岡県浜松市中区元城町103番地の2,
\* 静岡県浜松市北区初生町5番地, 東京都千代田区丸の内1丁目9番地の1,
\* 京都府京都市右京区, 北海道札幌市北区北1条西2丁目
CandAddresses ==
    { KyotoFuKyotoShi \o <<"u", "kyo", "ku", "sa", "ga", "ten", "ryu", "ji", "susuki", "no_k",
                          "ba", "jo", "cho", "6", "8", "ban", "chi">>,
      KyotoFuKyotoShi \o <<"naka", "kyo", "ku", "dai", "koku", "cho", "1", "2", "ban", "chi">>,
      <<"shizu", "oka", "ken">> \o HamamatsuShi \o
          <<"naka", "ku", "moto", "shiro", "cho", "1", "0", "3", "ban", "chi", "no", "2">>,
      <<"shizu", "oka", "ken">> \o HamamatsuShi \o
          <<"kita", "ku", "hatsu", "oi", "cho", "5", "ban", "chi">>,
      <<"higashi", "kyo", "to", "sen", "dai", "ta", "ku", "maru", "no", "uchi",
        "1", "tei", "me", "9", "ban", "chi", "no", "1">>,
      KyotoFuKyotoShi \o <<"u", "kyo", "ku">>,
      <<"hok", "kai", "do", "sap", "poro", "shi", "kita", "ku", "kita", "1", "jo_s", "nishi",
        "2", "tei", "me">> }

\* a part whose NotFound rows have one of the addresses, before
\* fix_notfound.py treats it
CandInit ==
    /\ pc = "done"
    /\ run = 1
    /\ progress = NoProgress
    /\ files = [p \in Parts |-> Absent]
    /\ start_part = 1
    /\ part_num = total_parts
    /\ semaphore = MaxConcurrent
    /\ tasks = <<>>
    /\ doneOrder = <<>>
    /\ df_result = <<>>
    /\ cpAtStart = 0
    /\ lookedUp = {}
    /\ wrote = {}
    /\ pending = 0
    /\ StatIdle
    /\ RecIdle
    /\ ClIdle
    /\ MoreIdle
    /\ fpc = "idle"
    /\ \E address \in CandAddresses : fbCands = VariantsOf(address)
    /\ fb = <<>>
    /\ fbOut = [i \in 1..NumFbRows |-> [query |-> "", lat |-> "", lon |-> ""]]

SpecCandidates == CandInit /\ [][FbNext]_vars

----------------------------------------------------------------------------
(* Properties of the pipeline, checked under Spec *)

\* part p's output file holds every row of chunk p
FileComplete(p) ==
    /\ files[p].exists
    /\ Len(files[p].rows) = ChunkLen(p)
    /\ \A i \in 1..ChunkLen(p) : files[p].rows[i].id = Chunk(p)[i].id

\* an address that is missing, empty or made of blanks only
BlankAddress(address) ==
    address.isna \/ \A k \in 1..Len(address.text) : address.text[k] = " "

\* a result a lookup of this address can return
ResultFitsAddress(address, r) ==
    /\ BlankAddress(address) <=> r.err = "AddressEmpty"
    /\ r.err = "" =>
          /\ ServiceData(Strip(address.text)) # <<>>
          /\ r.label = ServiceData(Strip(address.text))[1].properties.title
          /\ r.lat = ServiceData(Strip(address.text))[1].geometry.coordinates[2]
          /\ r.lon = ServiceData(Strip(address.text))[1].geometry.coordinates[1]
    /\ r.err # "" => r.label = "" /\ r.lat = None /\ r.lon = None
    /\ r.err = "NotFound" => ServiceData(Strip(address.text)) = <<>>

\* the result columns of a row of an output file
ResultOfCsv(row) ==
    [label |-> row.label, lat |-> ReadCell(row.lat), lon |-> ReadCell(row.lon), err |-> row.err]

\* C1: whenever the progress file holds a chunk number K, in a run or after
\* a run was stopped anywhere, the output files of all chunks 1..K are
\* completely written.
C1_CheckpointImpliesOutputs ==
    progress.st = "value" =>
        \A p \in 1..progress.n : p \in Parts /\ FileComplete(p)

\* a stopped run has left chunk number 2 in the progress file
C1_Witness == pc = "killed" /\ progress.st = "value" /\ progress.n = 2

\* C2: a run started with the progress file at K resumes at chunk K+1: it
\* issues no request for and does not rewrite the output of a chunk 1..K,
\* the first chunk it processes is K+1, and with no progress file K = 0.
C2_ResumeSkipsCheckpointed ==
    pc # "idle" =>
        /\ start_part = cpAtStart + 1
        /\ \A p \in lookedUp \cup wrote : p > cpAtStart
        /\ pc \in {"gather", "save", "saved", "progress"} => part_num > cpAtStart
        /\ wrote # {} => cpAtStart + 1 \in wrote

\* a run resumed after chunk 1 has looked up and saved chunk 2
C2_Witness == cpAtStart = 1 /\ 2 \in lookedUp /\ 2 \in wrote /\ run = 2

\* C3: when a run stopped during or after the write of chunk N's output and
\* before the progress file held N, the next run starts at chunk N.
C3_NextRunReprocessesPending ==
    (pending # 0 /\ stoppedAt = "") =>
        (pc # "fault_progress" /\ start_part = pending)

\* C4: an output file that exists holds every row of its chunk, at every
\* point of a run and after a stop at any point.
C4_OutputNeverPartial ==
    \A p \in Parts : files[p].exists => Len(files[p].rows) = ChunkLen(p)

\* C5: the number of requests in flight never exceeds the capacity of the
\* semaphore.
C5_InFlightWithinCapacity == InFlight <= MaxConcurrent

\* the capacity is used up and another row waits for the semaphore
C5_Witness == InFlight = MaxConcurrent /\ \E i \in Rows : tasks[i].pc = "wait"

\* C6: a row that sleeps between two attempts holds no permit.
C6_NoPermitWhileSleeping ==
    \A i \in Rows : tasks[i].pc = "sleep" => ~tasks[i].holds

\* C7: row i of a chunk's result frame and of its output file carries the
\* input columns of input row i and the result of input row i's lookup,
\* whatever the order in which the lookups finished.
C7_OutputOrderIsInputOrder ==
    /\ pc \in {"save", "saved", "progress"} =>
          /\ Len(df_result) = ChunkLen(part_num)
          /\ \A i \in 1..Len(df_result) :
                /\ df_result[i].id = Chunk(part_num)[i].id
                /\ df_result[i].address = Chunk(part_num)[i].address
                /\ [label |-> df_result[i].label, lat |-> df_result[i].lat,
                    lon |-> df_result[i].lon, err |-> df_result[i].err] = tasks[i].result
                /\ ResultFitsAddress(df_result[i].address, tasks[i].result)
    /\ \A p \in Parts : \A i \in 1..Len(files[p].rows) :
          /\ files[p].rows[i].id = Chunk(p)[i].id
          /\ files[p].rows[i].address = CsvRow(Augment(Chunk(p), [j \in 1..ChunkLen(p) |-> Failure("")])[i]).address
          /\ ResultFitsAddress(Chunk(p)[i].address, ResultOfCsv(files[p].rows[i]))

\* chunk 1 is saved after row 2's lookup finished before row 1's, with
\* different results
C7_Witness ==
    /\ pc = "saved"
    /\ part_num = 1
    /\ doneOrder = <<2, 1>>
    /\ files[1].rows[1].err = ""
    /\ files[1].rows[2].err = "NotFound"

\* C8: the lookup of a row whose address is missing, empty or blank never
\* waits for or holds the semaphore, sends no request, and returns the
\* status AddressEmpty.
C8_BlankAddressNoRequest ==
    \A i \in Rows : BlankAddress(AddressOf(i)) =>
        /\ tasks[i].pc \in {"new", "done"}
        /\ ~tasks[i].holds
        /\ tasks[i].reqs = 0
        /\ tasks[i].pc = "done" => tasks[i].result = Failure("AddressEmpty")

\* the lookup of a blank address has returned and the row of a missing
\* address has been saved
C8_Witness ==
    /\ pc = "saved"
    /\ \E i \in Rows : AddressOf(i) = Str(<<" ">>) /\ tasks[i].result.err = "AddressEmpty"
    /\ \E p \in Parts : \E i \in 1..Len(files[p].rows) :
          Chunk(p)[i].address = NaN /\ files[p].rows[i].err = "AddressEmpty"

----------------------------------------------------------------------------
(* Properties of the recovery pass, checked under SpecRecovery *)

\* C10: with a service that answers each query the same way every time, a
\* recovery pass run after the first one leaves every output file as the
\* first pass left it, and sends no request for a row the first pass got an
\* answer for.
C10_SecondPassChangesNothing ==
    rpass >= 2 =>
        /\ files = after1
        /\ recRequested \cap resolved1 = {}

\* the second pass has ended; the first pass got an answer for one row, and
\* the second pass asked again for a row that still had failed
C10_Witness ==
    /\ rpass = 2
    /\ rpc = "done"
    /\ resolved1 # {}
    /\ recRequested # {}

----------------------------------------------------------------------------
(* Properties of the fallback lookups, checked under SpecFallback *)

\* the candidates a row's lookups were sent for, in the order sent
Called(i) == [j \in 1..Len(fb[i].calls) |-> fb[i].calls[j].query]

\* C9: the candidates of a row are looked up one at a time in priority
\* order and the loop ends at the first candidate found: with the
\* candidates A, B, C of which A is not found and B is, the lookups are A
\* then B, C is not looked up and the fallback address is B.
C9_FallbackStopsAtFirstFound ==
    \A i \in FbRows :
        LET calls == fb[i].calls
            n == Len(calls)
        IN /\ n <= Len(fbCands)
           /\ Called(i) = SubSeq(fbCands, 1, n)
           /\ \A j \in 1..(n - 1) : ~calls[j].found
           /\ fb[i].pc = "done" =>
                 IF fb[i].result.found
                 THEN /\ n >= 1
                      /\ calls[n].found
                      /\ fb[i].result.query_address = fbCands[n]
                 ELSE /\ n = Len(fbCands)
                      /\ \A j \in 1..n : ~calls[j].found
           /\ fpc = "done" =>
                 fbOut[i].query = (IF fb[i].result.found THEN fbCands[n] ELSE "")

\* of the candidates A, B, C the lookups A (not found) and B (found) were
\* sent for row 1, and B is the row's fallback address
C9_Witness ==
    /\ fpc = "done"
    /\ fbCands = <<"A", "B", "C">>
    /\ fb[1].calls = << [query |-> "A", found |-> FALSE], [query |-> "B", found |-> TRUE] >>
    /\ fbOut[1].query = "B"

----------------------------------------------------------------------------
(* Claims on the primary run: faults, order of the chunks, the checkpoint *)

\* C11: no outcome of a row's lookup leaves chunk processing as an
\* unhandled fault: whatever the service answers, the row gets a status,
\* the other rows of the chunk are resolved and the chunk's output is
\* written, so no run ends in the fault of a lookup.
C11_NoLookupFaultLeavesChunk == pc # "fault_lookup"

\* C12: the chunks are processed one after another: while a request for a
\* row of a chunk has been sent in a run, the rows in process are those of
\* that one chunk, every earlier chunk of the run has its complete output
\* file, and the progress file holds the number of the chunk before it.
C12_ChunksOneAfterAnother ==
    /\ \A p \in lookedUp : start_part <= p /\ p <= part_num
    /\ (pc = "gather" /\ \E i \in Rows : tasks[i].reqs > 0) =>
          /\ part_num \in lookedUp
          /\ Len(tasks) = ChunkLen(part_num)
          /\ \A p \in start_part..(part_num - 1) : FileComplete(p)
          /\ part_num > start_part => progress = ProgressOf(part_num - 1)

\* the second chunk's first request has been sent after the first chunk was
\* saved and the progress file set to 1 in the same run
C12_Witness ==
    /\ pc = "gather"
    /\ start_part = 1
    /\ part_num = 2
    /\ \E i \in Rows : tasks[i].pc = "request"
    /\ lookedUp = {1, 2}
    /\ progress = ProgressOf(1)

\* C13: when a run is cancelled or stopped while the lookups of chunk N are
\* in process, the run has written no output file for chunk N (the file is
\* as it was when the chunk began) and the progress file is as it was when
\* the chunk began.
C13_CancelledChunkLeavesNoTrace ==
    (pc \in {"killed", "sigint", "interrupted"} /\ stoppedAt = "gather") =>
        /\ part_num \notin wrote
        /\ files[part_num] = chunkStart.file
        /\ progress = chunkStart.progress

\* the run was interrupted during the lookups of chunk 2, after chunk 1 was
\* saved: there is no file of chunk 2 and the progress file holds 1
C13_Witness ==
    /\ pc = "sigint"
    /\ stoppedAt = "gather"
    /\ part_num = 2
    /\ lookedUp = {1, 2}
    /\ ~files[2].exists
    /\ progress = ProgressOf(1)

\* C14: the progress file advances: over all runs, stops and restarts on the
\* same input, every chunk number written to the progress file is greater
\* than the number the file held when it was opened for that write, and
\* within one run each number written is the one after the number the run
\* wrote before.
C14_CheckpointAdvances ==
    [][(progress' # progress /\ progress'.st = "value") =>
          /\ progress'.n > replaced
          /\ lastDone # 0 => progress'.n = lastDone + 1
          /\ lastDone = 0 => progress'.n = replaced + 1]_vars

\* a run resumed after chunk 1 has written 2 over the 1 of the run before,
\* then 3 over its own 2
C14_Witness ==
    /\ run = 2
    /\ cpAtStart = 1
    /\ replaced = 2
    /\ lastDone = 3
    /\ progress = ProgressOf(3)

\* C15: the progress file is deleted exactly on completion: a run that has
\* reached the end of the input leaves no progress file, and a run that
\* ended earlier (stopped, interrupted or ended by a fault) after it had
\* completed a chunk leaves the progress file holding the number of the
\* last chunk it completed.
C15_CheckpointDeletedOnlyWhenDone ==
    /\ pc = "done" => progress = NoProgress
    /\ (pc \in Ended \ {"idle", "done"} /\ lastDone # 0) => progress = ProgressOf(lastDone)

----------------------------------------------------------------------------
(* Claims on setup failures, the summary and cancellation *)

\* C16: a setup failure is fatal before any work: a run that finds no
\* encoding for the input, or finds the address column missing, ends with a
\* non-zero exit status, having sent no request, written no output file and
\* left the progress file as it found it.
C16_SetupFailureIsFatal ==
    (setup # "ok" /\ pc \in {"done", "exit1", "fault_progress", "fault_lookup"}) =>
        /\ ExitStatus # 0
        /\ lookedUp = {}
        /\ wrote = {}
        /\ cpAtStart # 0 => progress = ProgressOf(cpAtStart)
        /\ cpAtStart = 0 => progress.st # "value"

----------------------------------------------------------------------------
(* Claims on the results of the lookups *)

\* C17: a successful response with an empty array is classified as
\* NotFound; one with a non-empty array is classified as resolved with the
\* title of the first feature, the second element of its coordinate pair as
\* latitude and the first as longitude; the primary, the recovery and the
\* fallback lookup take the pair in this same order.
C17_ResponseClassification ==
    /\ "primary" \in DOMAIN classified =>
          LET r == classified["primary"]
          IN IF payload = <<>>
             THEN r.err = "NotFound" /\ r.lat = None /\ r.lon = None
             ELSE /\ r.err = ""
                  /\ r.label = payload[1].properties.title
                  /\ r.lat = payload[1].geometry.coordinates[2]
                  /\ r.lon = payload[1].geometry.coordinates[1]
                  /\ r.lat \in Latitudes /\ r.lon \in Longitudes
    /\ "recovery" \in DOMAIN classified =>
          LET r == classified["recovery"]
          IN IF payload = <<>>
             THEN r.success /\ r.error = "NotFound" /\ r.lat = "" /\ r.lon = ""
             ELSE /\ r.success /\ r.error = ""
                  /\ r.label = payload[1].properties.title
                  /\ r.lat = payload[1].geometry.coordinates[2]
                  /\ r.lon = payload[1].geometry.coordinates[1]
                  /\ r.lat \in Latitudes /\ r.lon \in Longitudes
    /\ "fallback" \in DOMAIN classified =>
          LET r == classified["fallback"]
          IN IF payload = <<>>
             THEN ~r.found
             ELSE /\ r.found
                  /\ r.lat = payload[1].geometry.coordinates[2]
                  /\ r.lon = payload[1].geometry.coordinates[1]
                  /\ r.lat \in Latitudes /\ r.lon \in Longitudes

\* a response with two features, Tokyo at (139.7, 35.6) first, has been
\* classified by the three lookups: each has latitude 35.6, longitude 139.7
C17_Witness ==
    /\ Len(payload) = 2
    /\ payload[1].properties.title = "Tokyo"
    /\ payload[1].geometry.coordinates = <<"139.7", "35.6">>
    /\ payload[2].properties.title = "Osaka"
    /\ DOMAIN classified = {"primary", "recovery", "fallback"}
    /\ classified["primary"].label = "Tokyo"
    /\ \A script \in DOMAIN classified :
          classified[script].lat = "35.6" /\ classified[script].lon = "139.7"

\* the values of the status column
Statuses ==
    {"", "AddressEmpty", "NotFound", "Timeout", "TransportError", "TransportError: HTTP",
     "TransportError: HTML", "ParseError", "RetryLimit"}

C19_SummaryCoversInput ==
    pc = "done" => success_total + error_total = NumRows

\* C20: a user's interrupt that arrives while a run processes chunks ends
\* the run as a clean interruption: the handler reports it and the process
\* exits with status 0, never with an error status or an unhandled
\* exception.
C20_InterruptExitsClean ==
    pc \in {"interrupted", "sigint"} => (pc = "interrupted" /\ ExitStatus = 0)

----------------------------------------------------------------------------
(* Claims on the retry loop of one lookup, checked under SpecLookup *)

\* the answer to the last request that has ended ("": none yet)
LastKind == IF lk.kinds = <<>> THEN "" ELSE lk.kinds[Len(lk.kinds)]

\* the latest request of the lookup has ended, with kind
Answered(kind) == Len(lk.kinds) = lk.reqs /\ LastKind = kind

\* C21: the retries of one lookup are bounded: a lookup sends at most
\* retry_count requests (3 in the primary run, 5 in the recovery pass); it
\* sleeps for another attempt after a timeout or a transport failure only
\* while attempts remain; when its last attempt timed out its status is
\* Timeout and when its last attempt failed at transport level
\* TransportError, whatever the earlier answers were; an answer with a JSON
\* array (resolved or not found) ends the lookup at once.
C21_BoundedRetry ==
    LET n == RetryCountOf(lk.script)
    IN /\ n = (IF lk.script = "primary" THEN 3 ELSE 5)
       /\ lk.reqs <= n
       /\ lk.reqs = lk.attempt + 1
       /\ lk.pc = "sleep" => lk.attempt < n - 1
       /\ \A j \in 1..(Len(lk.kinds) - 1) : lk.kinds[j] # "json"
       /\ LastKind = "json" =>
             lk.pc = "done" /\ lk.status = (IF ServiceData(lk.q) = <<>> THEN "NotFound" ELSE "")
       /\ (lk.pc = "done" /\ LastKind = "timeout") =>
             lk.reqs = n /\ lk.status = "Timeout"
       /\ (lk.pc = "done" /\ LastKind \in {"clienterror", "status"}) =>
             /\ lk.reqs = n
             /\ lk.status \in {"TransportError", "TransportError: HTTP"}

\* a recovery lookup whose first four requests failed in different ways and
\* whose fifth timed out has the status Timeout
C21_Witness ==
    /\ lk.script = "recovery"
    /\ lk.pc = "done"
    /\ lk.reqs = 5
    /\ lk.kinds = <<"clienterror", "timeout", "status", "clienterror", "timeout">>
    /\ lk.status = "Timeout"

\* C22: a malformed payload is never retried: when the answer is a non-empty
\* array whose first element lacks the expected fields, the lookup, primary
\* or recovery, ends with ParseError and that request was its last.
C22_MalformedNotRetried ==
    Answered("malformed") => (lk.pc = "done" /\ lk.status = "ParseError")

----------------------------------------------------------------------------
(* Properties of the scripts run on the output files, checked under        *)
(* SpecPasses                                                               *)

\* the statuses of a timeout and of a transport failure
C24_RetryStatuses == {"Timeout", "TransportError", "TransportError: HTTP", "TransportError: HTML"}

\* C24: a script changes only the rows it selects. While and after the
\* recovery script runs, every row whose status at its start was not a
\* timeout or a transport failure has the six values it had at the start,
\* and no fallback cell of any row has changed; while and after a fallback
\* script runs, every row has the id, address, label, latitude, longitude
\* and status it had at the start, and every row whose status at the start
\* was not NotFound, or that had a fallback query already, has the fallback
\* cells it had at the start.
C24_PassesMutateSelectedRowsOnly ==
    ps.pc # "idle" =>
        \A p \in Parts : \A i \in 1..Len(files[p].rows) :
            LET old == atPass.files[p].rows[i]
                new == files[p].rows[i]
                oldc == atPass.cols[p].cells[i]
                newc == fbCols[p].cells[i]
            IN /\ ps.script = "retry_timeout" =>
                    /\ newc = oldc
                    /\ old.err \notin C24_RetryStatuses => new = old
               /\ ps.script \in FallbackScripts =>
                    /\ new = old
                    /\ ~(old.err = "NotFound" /\ oldc.query = "") => newc = oldc

\* a second script, a fallback script, has ended: it stored a fallback
\* result for a NotFound row that had none, next to a row whose status is
\* a timeout
C24_Witness ==
    /\ ps.pc = "done"
    /\ ps.n = 2
    /\ ps.script \in FallbackScripts
    /\ \E p \in Parts : \E i \in 1..Len(files[p].rows) :
          /\ atPass.files[p].rows[i].err = "NotFound"
          /\ atPass.cols[p].cells[i].query = ""
          /\ fbCols[p].cells[i].query # ""
    /\ \E p \in Parts : \E i \in 1..Len(files[p].rows) :
          files[p].rows[i].err = "Timeout"

\* the entries of fbTried for the row at position i of part p
C25_Tried(p, i) == {t \in fbTried : t.id = ReadFile(p)[i].id}

\* C25: a fallback script tries candidates only for rows whose status is
\* NotFound: every row it called try_address_variants for had the status
\* NotFound when the script started, a row whose status was resolved
\* (empty), AddressEmpty, Timeout, TransportError or ParseError was not
\* tried, and a tried row for which no candidate was found has empty
\* fallback cells and still the status NotFound.
C25_FallbackEligibility ==
    ps.script \in FallbackScripts =>
        \A p \in Parts : \A i \in 1..Len(files[p].rows) :
            /\ C25_Tried(p, i) # {} => atPass.files[p].rows[i].err = "NotFound"
            /\ atPass.files[p].rows[i].err \in
                  {"", "AddressEmpty", "Timeout", "TransportError", "TransportError: HTTP",
                   "TransportError: HTML", "ParseError"} => C25_Tried(p, i) = {}
            /\ \A t \in C25_Tried(p, i) :
                  ~t.found => /\ fbCols[p].cells[i] = NoCell
                              /\ files[p].rows[i].err = "NotFound"

\* a fallback script has ended: it found no candidate for a NotFound row,
\* and it visited a resolved row and a row with a timeout
C25_Witness ==
    /\ ps.pc = "done"
    /\ ps.script \in FallbackScripts
    /\ \E t \in fbTried : ~t.found
    /\ \E p \in Parts : \E i \in 1..Len(files[p].rows) : files[p].rows[i].err = ""
    /\ \E p \in Parts : \E i \in 1..Len(files[p].rows) : files[p].rows[i].err = "Timeout"

\* C28: every fallback script adds the three fallback columns when they are
\* absent: a fallback script that is the first script run on the output
\* files does not fault, and when it has ended every output file has the
\* fallback columns.
C28_FallbackAddsColumns ==
    (ps.n = 1 /\ ps.script \in FallbackScripts) =>
        /\ ps.pc # "fault"
        /\ ps.pc = "done" => \A p \in Parts : files[p].exists => fbCols[p].present

----------------------------------------------------------------------------
(* Further properties of the pipeline, checked under Spec *)

\* C26: fallback is part of chunk processing: every row with the status
\* NotFound in an output file the pipeline has written in full had its
\* fallback candidates tried while its chunk was processed, and the file
\* carries the fallback columns.
C26_FallbackInChunk ==
    \A p \in Parts :
        FileComplete(p) =>
            \A i \in 1..Len(files[p].rows) :
                files[p].rows[i].err = "NotFound" =>
                    /\ fbCols[p].present
                    /\ \E t \in fbTried : t.id = files[p].rows[i].id

----------------------------------------------------------------------------
(* Properties of the candidates of fix_notfound.py, checked under          *)
(* SpecCandidates                                                           *)

\* C27: the candidates looked up for one row are deduplicated: the queries
\* try_address_variants has sent for a row, over the converted address, the
\* Kyoto variants and the general variants, contain no string twice.
C27_CandidatesDeduplicated ==
    \A i \in FbRows :
        \A k1, k2 \in 1..Len(fb[i].calls) :
            k1 < k2 => fb[i].calls[k1].query # fb[i].calls[k2].query

\* C29: the progress file stays valid across a stop at any point, the
\* update of the progress file included: after a run was stopped or
\* interrupted the progress file is absent or holds the number of a chunk
\* whose output file is complete, and no run ends in a fault when it reads
\* the progress file.
C29_CheckpointValidAcrossInterruption ==
    /\ stoppedAt # "" =>
          \/ progress.st = "absent"
          \/ progress.st = "value" /\ FileComplete(progress.n)
    /\ pc # "fault_progress"

\* the places (part, position) where row r of the input is in an output file
C30_PlacesOf(r) ==
    {pl \in Parts \X (1..SplitSize) :
        /\ files[pl[1]].exists
        /\ pl[2] <= Len(files[pl[1]].rows)
        /\ files[pl[1]].rows[pl[2]].id = InputRow(r).id}

\* C30: coverage is exactly once across stops: when a run has reached the
\* end of the input, whatever runs were stopped before it and wherever,
\* every chunk has its output file, the file of chunk p holds as many rows
\* as chunk p, and every row of the input is in exactly one place of
\* exactly one output file.
C30_ExactlyOnceCoverage ==
    pc = "done" =>
        /\ \A p \in Parts : files[p].exists /\ Len(files[p].rows) = ChunkLen(p)
        /\ \A r \in 1..NumRows : Cardinality(C30_PlacesOf(r)) = 1

\* a second run, resumed after chunk 1 when the first run was stopped, has
\* reached the end of the input
C30_Witness ==
    /\ pc = "done"
    /\ run = 2
    /\ cpAtStart = 1
    /\ wrote = Parts \ {1}

----------------------------------------------------------------------------
(* Claims on permits, the counts of a chunk and termination *)

\* the coroutines of the chunk that are inside "async with semaphore"
C31_Holders == {i \in DOMAIN tasks : tasks[i].holds}

\* C31: no permit leaks: the value of the semaphore plus the number of
\* lookups that are inside "async with semaphore" is the capacity, a lookup
\* that has not acquired yet or has ended holds no permit, and whenever no
\* chunk's lookups are running (between chunks, while a chunk is saved,
\* after the run has ended) the value of the semaphore is the capacity.
C31_NoPermitLeaks ==
    /\ semaphore + Cardinality(C31_Holders) = MaxConcurrent
    /\ \A i \in DOMAIN tasks : tasks[i].pc \in {"new", "wait", "done"} => ~tasks[i].holds
    /\ pc # "gather" => semaphore = MaxConcurrent

\* chunk 1 is saved and the run is between chunks: one of its lookups
\* returned a failure status after its retries and another returned a result
C31_Witness ==
    /\ pc = "loop"
    /\ part_num = 1
    /\ FileComplete(1)
    /\ semaphore = MaxConcurrent
    /\ \E i \in 1..Len(files[1].rows) : files[1].rows[i].err = "Timeout"
    /\ \E i \in 1..Len(files[1].rows) : files[1].rows[i].err = ""

\* the statuses no later script changes: resolved (empty), NotFound,
\* AddressEmpty, ParseError
C32_SettledStatuses == {"", "NotFound", "AddressEmpty", "ParseError"}

\* in every output file, a row with a fallback query or fallback
\* coordinates has the status NotFound and no primary coordinates
C32_FallbackOnlyOnNotFound ==
    \A p \in Parts : \A i \in 1..Len(files[p].rows) :
        fbCols[p].cells[i] # NoCell =>
            /\ files[p].rows[i].err = "NotFound"
            /\ files[p].rows[i].lat = ""
            /\ files[p].rows[i].lon = ""

\* a step of a script leaves the status of every row that is resolved,
\* NotFound, AddressEmpty or ParseError as it is
C32_SettledStatusKept ==
    \A p \in Parts : \A i \in 1..Len(files[p].rows) :
        files[p].rows[i].err \in C32_SettledStatuses =>
            files'[p].rows[i].err = files[p].rows[i].err

\* C32: through any sequence of recovery and fallback scripts on the
\* output of the pipeline, a row has a fallback query or fallback
\* coordinates only if its status is NotFound, no row has both primary and
\* fallback coordinates, and the status of a row that is resolved,
\* NotFound, AddressEmpty or ParseError is never changed.
C32_FallbackAndStatusInvariants ==
    /\ []C32_FallbackOnlyOnNotFound
    /\ [][C32_SettledStatusKept]_vars

\* a recovery script has ended after a fallback script stored a fallback
\* result: the row with the fallback result is NotFound, and another row
\* that had a timeout is now resolved
C32_Witness ==
    /\ ps.pc = "done"
    /\ ps.n = 2
    /\ ps.script = "retry_timeout"
    /\ \E p \in Parts : \E i \in 1..Len(files[p].rows) : fbCols[p].cells[i].query # ""
    /\ \E p \in Parts : \E i \in 1..Len(files[p].rows) :
          /\ atPass.files[p].rows[i].err = "Timeout"
          /\ files[p].rows[i].err = ""

C34_RunReachesDone ==
    (pc = "loop" /\ setup = "ok") ~> (pc = "done" /\ progress = NoProgress)

====
